---- MODULE Spec2Model ----
(***************************************************************************)
(* Model of compute.py: the ship exhaust emission estimate.                *)
(*                                                                         *)
(* The program is a set of functions over read-only CSV tables.  The state *)
(* is the data directory (which files exist, what they hold) and the last  *)
(* call made: its function, its arguments, how it ended, and the local     *)
(* values compute_E held when it ended.                                    *)
(*                                                                         *)
(* Numbers.  Table factors are whole numbers of one unit (1 stands for the *)
(* float 1.0).  A load factor or an emission is a fraction [n, d] of       *)
(* integers with d >= 0, never reduced; d = 0 stands for the IEEE values   *)
(* numpy's division yields: n > 0 is inf, n < 0 is -inf, n = 0 is nan.     *)
(* Float rounding is not modelled.                                         *)
(***************************************************************************)
EXTENDS Integers, Sequences, FiniteSets, TLC

VARIABLES missing, layout, call, ret, locals

vars == <<missing, layout, call, ret, locals>>

(***************************************************************************)
(* Bounds of the model.                                                    *)
(***************************************************************************)
MaxPolls == 2

(***************************************************************************)
(* Outcomes of a call, Python values.                                      *)
(***************************************************************************)
\* A call returns a dict of factors (val), a float (num), None or a dict of
\* emissions (E), or raises an exception (err).
Ok(v) == [kind |-> "ok", val |-> v]
OkNum(x) == [kind |-> "ok", num |-> x]
OkNone == [kind |-> "ok", none |-> TRUE]
OkE(d) == [kind |-> "ok", E |-> d]
Raise(e) == [kind |-> "raise", err |-> e]
None == [none |-> TRUE]

Rat(n, d) == [n |-> n, d |-> d]
Whole(k) == Rat(k, 1)
RatMul(x, y) == Rat(x.n * y.n, x.d * y.d)
\* x > y for finite fractions (denominators are positive).
RatGT(x, y) == x.n * y.d > y.n * x.d
Abs(k) == IF k < 0 THEN -k ELSE k

(***************************************************************************)
(* A Python dict: a sequence of <<key, value>> in insertion order.         *)
(***************************************************************************)
Keys(d) == [i \in 1..Len(d) |-> d[i][1]]
HasKey(d, k) == \E i \in 1..Len(d) : d[i][1] = k
DictPut(d, k, v) ==
    IF HasKey(d, k)
    THEN [i \in 1..Len(d) |-> IF d[i][1] = k THEN <<k, v>> ELSE d[i]]
    ELSE Append(d, <<k, v>>)
DictGet(d, k, default) ==
    IF HasKey(d, k) THEN d[CHOOSE i \in 1..Len(d) : d[i][1] = k][2] ELSE default
\* d[k]; only used where the key is present.
DictAt(d, k) == d[CHOOSE i \in 1..Len(d) : d[i][1] = k][2]

(***************************************************************************)
(* The data directory.                                                     *)
(***************************************************************************)
FileNames ==
    {"data/LF_auxiliary.csv", "data/EF_base.csv", "data/LLA_non_man.csv",
     "data/EFA_non_man.csv", "data/LAF_MAN_C3.csv", "data/LAF_MAN_SV.csv",
     "data/buoy.csv"}

\* ship,trip,maneuver,mooring / container,0.8,0.6,0.2
LF_auxiliary_csv ==
    << [ship |-> "container", trip |-> Rat(4, 5), maneuver |-> Rat(3, 5),
        mooring |-> Rat(1, 5)] >>

\* exhaust,Tier,main (SSD),main(MSD),main(HSD),auxiliary.  PM has rows for
\* tiers 0 and 1 only.
EfRow(e, t, b) ==
    [exhaust |-> e, Tier |-> t, mainSSD |-> b + 1, mainMSD |-> b + 2,
     mainHSD |-> b + 3, auxiliary |-> b + 4]
EF_base_csv ==
    << EfRow("NOx", 0, 10), EfRow("NOx", 1, 20), EfRow("NOx", 2, 30),
       EfRow("NOx", 3, 40), EfRow("CO2", 0, 50), EfRow("CO2", 1, 60),
       EfRow("CO2", 2, 70), EfRow("CO2", 3, 80), EfRow("PM", 0, 90),
       EfRow("PM", 1, 100) >>

\* Pollutant,SV,C3.  CO2 has no row.
EFA_non_man_csv ==
    << [Pollutant |-> "NOx", SV |-> 2, C3 |-> 3],
       [Pollutant |-> "PM", SV |-> 5, C3 |-> 7] >>

\* buoy,trip,maneuver,mooring
buoy_csv == << [buoy |-> 0, trip |-> 3, maneuver |-> 1, mooring |-> 0] >>

\* A table with a Load column: the Load cells as read (numbers, or text such
\* as "10%" held as its characters) and one column of factors per pollutant.
LoadTable(dtype, load, cols) == [dtype |-> dtype, Load |-> load, cols |-> cols]

\* Load,NOx,PM in ascending order of load, as the published tables are.
LLA_sorted ==
    LoadTable("float64", <<2, 10, 20>>,
              [p \in {"NOx", "PM"} |->
                 IF p = "NOx" THEN <<11, 13, 17>> ELSE <<19, 23, 29>>])
\* The same columns with the loads as text and the rows out of order.
LLA_text ==
    LoadTable("object", << <<"1", "0", "%">>, <<"2", "%">>, <<"2", "0", "%">> >>,
              [p \in {"NOx", "PM"} |->
                 IF p = "NOx" THEN <<13, 11, 17>> ELSE <<23, 19, 29>>])
LAF_C3_sorted ==
    LoadTable("float64", <<0, 12, 50, 100>>,
              [p \in {"NOx", "PM"} |->
                 IF p = "NOx" THEN <<6, 5, 3, 1>> ELSE <<9, 8, 4, 2>>])
LAF_C3_text ==
    LoadTable("object", << <<"5", "0", "%">>, <<"1", "2", "%">>, <<"0", "%">>,
                           <<"1", "0", "0", "%">> >>,
              [p \in {"NOx", "PM"} |->
                 IF p = "NOx" THEN <<3, 5, 6, 1>> ELSE <<4, 8, 9, 2>>])
\* Load,NOx,CO2: PM has no column in the slide-valve table.
LAF_SV_sorted ==
    LoadTable("float64", <<0, 12, 50, 100>>,
              [p \in {"NOx", "CO2"} |->
                 IF p = "NOx" THEN <<7, 4, 2, 1>> ELSE <<8, 6, 3, 1>>])

\* The data directories a call can find: every file present, the tables with
\* a Load column in either layout, or one file missing.
Layouts == {"sorted", "text"}
Environments ==
    {[missing |-> {}, layout |-> l] : l \in Layouts}
    \cup {[missing |-> {f}, layout |-> "sorted"] : f \in FileNames}

\* The tables the files hold.
tables ==
    [LF_auxiliary |-> LF_auxiliary_csv, EF_base |-> EF_base_csv,
     LLA_non_man |-> IF layout = "sorted" THEN LLA_sorted ELSE LLA_text,
     EFA_non_man |-> EFA_non_man_csv,
     LAF_MAN_C3 |-> IF layout = "sorted" THEN LAF_C3_sorted ELSE LAF_C3_text,
     LAF_MAN_SV |-> LAF_SV_sorted, buoy |-> buoy_csv]

\* pd.read_csv(name): FileNotFoundError when the file is missing.
FileExists(name) == name \notin missing

(***************************************************************************)
(* compute_lf                                                              *)
(***************************************************************************)
\* float(row[status].values[0]): the ship column holds text, which float()
\* refuses with ValueError.
FloatOfCell(row, column) ==
    IF column = "ship" THEN Raise("ValueError") ELSE OkNum(row[column])

compute_lf(v_actual, v_max, engine, type, status) ==
    IF engine = "main"
    THEN IF v_max = 0
         THEN Raise("ZeroDivisionError")
         ELSE OkNum(Rat(v_actual * v_actual * v_actual, v_max * v_max * v_max))
    ELSE IF engine = "auxiliary"
    THEN IF ~FileExists("data/LF_auxiliary.csv")
         THEN Raise("FileNotFoundError")
         ELSE LET row == SelectSeq(tables.LF_auxiliary, LAMBDA r : r.ship = type)
              IN  IF row = <<>>
                  THEN OkNum(Rat(1, 2))
                  ELSE IF status \in DOMAIN row[1]
                       THEN FloatOfCell(row[1], status)
                       ELSE Raise("ValueError")
    ELSE Raise("ValueError")

(***************************************************************************)
(* compute_ef_base                                                         *)
(***************************************************************************)
\* The boundary years taken into the lower bracket.
TierOfYear_lower(year) ==
    IF year <= 2000 THEN 0
    ELSE IF year <= 2009 THEN 1
    ELSE IF year <= 2016 THEN 2
    ELSE 3

TierOfYear(year) ==
    CASE year < 2000 -> 0
      [] 2000 <= year /\ year < 2009 -> 1
      [] 2009 <= year /\ year < 2016 -> 2
      [] year >= 2016 -> 3
      [] OTHER -> -1

SpeedOfRpm(rpm) ==
    CASE rpm < 130 -> "SSD"
      [] 130 <= rpm /\ rpm < 2000 -> "MSD"
      [] rpm >= 2000 -> "HSD"
      [] OTHER -> "invalid"

\* The classification the lookup uses: the tier and engine_speed arguments
\* are overwritten by the two match statements before they are read.
Classify(engine_speed, year, tier, rpm) ==
    [tier |-> TierOfYear(year), engine_speed |-> SpeedOfRpm(rpm)]

\* One pollutant of the loop: the value stored, or the error raised.
EfBaseValue(pollutant, engine, engine_speed, tier) ==
    LET row == SelectSeq(tables.EF_base,
                         LAMBDA r : r.exhaust = pollutant /\ r.Tier = tier)
    IN  IF row = <<>> THEN Ok(0)
        ELSE IF engine = "main"
             THEN CASE engine_speed = "SSD" -> Ok(row[1].mainSSD)
                    [] engine_speed = "MSD" -> Ok(row[1].mainMSD)
                    [] engine_speed = "HSD" -> Ok(row[1].mainHSD)
                    [] OTHER -> Raise("ValueError")
             ELSE IF engine = "auxiliary" THEN Ok(row[1].auxiliary)
             ELSE Raise("ValueError")

RECURSIVE EfBaseLoop(_, _, _, _, _, _)
EfBaseLoop(pollutants, i, results, engine, engine_speed, tier) ==
    IF i > Len(pollutants) THEN Ok(results)
    ELSE LET v == EfBaseValue(pollutants[i], engine, engine_speed, tier)
         IN  IF v.kind = "raise" THEN v
             ELSE EfBaseLoop(pollutants, i + 1,
                             DictPut(results, pollutants[i], v.val),
                             engine, engine_speed, tier)

compute_ef_base(pollutants, engine, engine_speed, year, tier, rpm) ==
    LET c == Classify(engine_speed, year, tier, rpm)
    IN  IF c.tier = -1 \/ c.engine_speed = "invalid" THEN Raise("ValueError")
        ELSE IF ~FileExists("data/EF_base.csv") THEN Raise("FileNotFoundError")
        ELSE EfBaseLoop(pollutants, 1, <<>>, engine, c.engine_speed, c.tier)

(***************************************************************************)
(* The loops "for p in pollutants: results[p] = ..." whose body cannot     *)
(* raise.                                                                  *)
(***************************************************************************)
RECURSIVE DictLoop(_, _, _, _)
DictLoop(pollutants, values, i, results) ==
    IF i > Len(pollutants) THEN results
    ELSE DictLoop(pollutants, values, i + 1,
                  DictPut(results, pollutants[i], values[i]))

\* results = {}; for p in pollutants: results[p] = Body(p)
\* values[i] is what the loop body computes for pollutants[i].
ForEach(pollutants, values) == DictLoop(pollutants, values, 1, <<>>)

(***************************************************************************)
(* The Load column: "10%" -> 10.0                                          *)
(***************************************************************************)
\* str.replace('%', '')
StripPercent(text) == SelectSeq(text, LAMBDA c : c # "%")

DigitValue(c) ==
    CASE c = "0" -> 0 [] c = "1" -> 1 [] c = "2" -> 2 [] c = "3" -> 3
      [] c = "4" -> 4 [] c = "5" -> 5 [] c = "6" -> 6 [] c = "7" -> 7
      [] c = "8" -> 8 [] c = "9" -> 9

\* astype(float) of a string of digits.
RECURSIVE ParseFloat(_)
ParseFloat(text) ==
    IF text = <<>> THEN 0
    ELSE 10 * ParseFloat(SubSeq(text, 1, Len(text) - 1)) + DigitValue(text[Len(text)])

LoadColumn(t) ==
    IF t.dtype = "object"
    THEN [i \in 1..Len(t.Load) |-> ParseFloat(StripPercent(t.Load[i]))]
    ELSE t.Load

Columns(t) == {"Load"} \cup DOMAIN t.cols
Cell(t, i, column) == IF column = "Load" THEN LoadColumn(t)[i] ELSE t.cols[column][i]

\* lf * 100
LoadPercent(lf) == Rat(lf.n * 100, lf.d)

SeqMax(s) == CHOOSE m \in {s[i] : i \in 1..Len(s)} : \A i \in 1..Len(s) : s[i] <= m

\* |load - current| as a multiple of 1/current.d
Distance(load, current) == Abs(load * current.d - current.n)

\* The last row of the smallest distance instead of the first.
idxmin_last(loads, current) ==
    CHOOSE i \in 1..Len(loads) :
        /\ \A j \in 1..Len(loads) : Distance(loads[i], current) <= Distance(loads[j], current)
        /\ \A j \in (i + 1)..Len(loads) : Distance(loads[j], current) > Distance(loads[i], current)

\* (loads - current).abs().idxmin(): the first row of the smallest distance.
idxmin(loads, current) ==
    CHOOSE i \in 1..Len(loads) :
        /\ \A j \in 1..Len(loads) : Distance(loads[i], current) <= Distance(loads[j], current)
        /\ \A j \in 1..(i - 1) : Distance(loads[j], current) > Distance(loads[i], current)

(***************************************************************************)
(* compute_lla                                                             *)
(***************************************************************************)
\* The body of the loop for one pollutant.
LlaValue(pollutant, lf) ==
    LET t == tables.LLA_non_man
        loads == LoadColumn(t)
        current_load_percent == LoadPercent(lf)
        max_table_load == SeqMax(loads)
    IN  IF pollutant \notin Columns(t) THEN 1
        ELSE IF RatGT(current_load_percent, Whole(max_table_load)) THEN 1
        ELSE Cell(t, idxmin(loads, current_load_percent), pollutant)

compute_lla(pollutants, lf) ==
    IF ~FileExists("data/LLA_non_man.csv")
    THEN Ok(ForEach(pollutants, [i \in DOMAIN pollutants |-> 1]))
    ELSE Ok(ForEach(pollutants, [i \in DOMAIN pollutants |-> LlaValue(pollutants[i], lf)]))

(***************************************************************************)
(* compute_efa_non_man                                                     *)
(***************************************************************************)
\* A pollutant without a row given 0.0, the base table's default.
EfaValue_zero(p, valve_type) ==
    LET row == SelectSeq(tables.EFA_non_man, LAMBDA r : r.Pollutant = p)
    IN  IF row = <<>> THEN 0 ELSE row[1][valve_type]

EfaValue(p, valve_type) ==
    LET row == SelectSeq(tables.EFA_non_man, LAMBDA r : r.Pollutant = p)
    IN  IF row = <<>> THEN 1 ELSE row[1][valve_type]

compute_efa_non_man(pollutants, valve_type) ==
    IF ~FileExists("data/EFA_non_man.csv") THEN Raise("FileNotFoundError")
    ELSE IF valve_type \notin {"SV", "C3"} THEN Raise("ValueError")
    ELSE Ok(ForEach(pollutants, [i \in DOMAIN pollutants |-> EfaValue(pollutants[i], valve_type)]))

(***************************************************************************)
(* compute_real_ef_non_man                                                 *)
(***************************************************************************)
\* The gate taken at 0.2 as well: lf >= 0.2 or engine == 'auxiliary'
SkipsCorrection_inclusive(lf, engine) ==
    ~RatGT(Rat(1, 5), lf) \/ engine = "auxiliary"

\* lf > 0.2 or engine == 'auxiliary'
SkipsCorrection(lf, engine) == RatGT(lf, Rat(1, 5)) \/ engine = "auxiliary"

compute_real_ef_non_man(pollutants, lf, engine, year, rpm, valve_type) ==
    LET base_efs == compute_ef_base(pollutants, "main", "SSD", year, 0, rpm)
    IN  IF base_efs.kind = "raise" THEN base_efs
        ELSE IF SkipsCorrection(lf, engine)
        THEN compute_ef_base(pollutants, engine, "SSD", year, 0, rpm)
        ELSE LET efas == compute_efa_non_man(pollutants, valve_type)
                 llas == compute_lla(pollutants, lf)
             IN  IF efas.kind = "raise" THEN efas
                 ELSE IF llas.kind = "raise" THEN llas
                 ELSE Ok(ForEach(pollutants,
                           [i \in DOMAIN pollutants |->
                               DictGet(base_efs.val, pollutants[i], 0)
                               * DictGet(efas.val, pollutants[i], 1)
                               * DictGet(llas.val, pollutants[i], 1)]))

(***************************************************************************)
(* compute_laf_man                                                         *)
(***************************************************************************)
LafTable(valve_type) ==
    IF valve_type = "C3" THEN tables.LAF_MAN_C3 ELSE tables.LAF_MAN_SV

LafValue(p, lf, valve_type) ==
    LET df == LafTable(valve_type)
    IN  IF p \notin Columns(df) THEN 1
        ELSE Cell(df, idxmin(LoadColumn(df), LoadPercent(lf)), p)

compute_laf_man(pollutants, lf, valve_type) ==
    IF valve_type \notin {"C3", "SV"} THEN Raise("ValueError")
    ELSE IF ~FileExists(IF valve_type = "C3" THEN "data/LAF_MAN_C3.csv"
                        ELSE "data/LAF_MAN_SV.csv")
    THEN Raise("FileNotFoundError")
    ELSE Ok(ForEach(pollutants, [i \in DOMAIN pollutants |-> LafValue(pollutants[i], lf, valve_type)]))

(***************************************************************************)
(* compute_real_ef_man                                                     *)
(***************************************************************************)
compute_real_ef_man(pollutants, lf, engine, year, rpm, valve_type) ==
    LET base_efs == compute_ef_base(pollutants, engine, "SSD", year, 0, rpm)
    IN  IF base_efs.kind = "raise" THEN base_efs
        ELSE LET lafs == compute_laf_man(pollutants, lf, valve_type)
             IN  IF lafs.kind = "raise" THEN lafs
                 ELSE Ok(ForEach(pollutants,
                           [i \in DOMAIN pollutants |->
                               DictGet(base_efs.val, pollutants[i], 0)
                               * DictGet(lafs.val, pollutants[i], 1)]))

(***************************************************************************)
(* compute_A                                                               *)
(***************************************************************************)
\* 2 * (S / v_actual), S a numpy scalar: a zero v_actual does not raise, the
\* quotient is inf, -inf or nan (a fraction of denominator 0).
DistanceRatio(S, v_actual) == Rat(2 * S, v_actual)

compute_A(v_actual, buoy, status) ==
    IF ~FileExists("data/buoy.csv") THEN Raise("FileNotFoundError")
    ELSE LET row == SelectSeq(tables.buoy, LAMBDA r : r.buoy = buoy)
         IN  IF row = <<>> THEN OkNone
             ELSE IF status \notin DOMAIN row[1] THEN Raise("KeyError")
             ELSE OkNum(DistanceRatio(row[1][status], v_actual))

(***************************************************************************)
(* compute_E                                                               *)
(***************************************************************************)
Unset == [unset |-> TRUE]

\* lf * A * P * ef[p], left to right.
Emission(lf, A, P, ef) == RatMul(RatMul(RatMul(lf, A), Whole(P)), Whole(ef))

\* for p in pollutants: E[p] = lf * A * P * ef[p].  A float times None is a
\* TypeError, raised by the first pass of the loop.
EmissionLoop(pollutants, lf, A, P, ef) ==
    IF pollutants = <<>> THEN OkE(<<>>)
    ELSE IF A = None THEN Raise("TypeError")
    ELSE OkE(ForEach(pollutants, [i \in DOMAIN pollutants |-> 
              Emission(lf, A, P, DictAt(ef, pollutants[i]))]))

\* The call's outcome and the locals it held (ef is empty until set):
\* multiplied counts the passes of the final loop that began.
Frame(r, lf, A, ef, multiplied) ==
    [ret |-> r, lf |-> lf, A |-> A, ef |-> ef, multiplied |-> multiplied]

\* What compute_A returned: None or a float.
Returned(r) == IF "none" \in DOMAIN r THEN None ELSE r.num

compute_E(pollutants, v_actual, v_max, P, engine, type, status, buoy, is_man, valve_type, rpm, year) ==
    LET lf == compute_lf(v_actual, v_max, engine, type, status)
    IN  IF lf.kind = "raise" THEN Frame(lf, Unset, Unset, <<>>, 0)
        ELSE
    LET A == compute_A(v_actual, buoy, status)
    IN  IF A.kind = "raise" THEN Frame(A, lf.num, Unset, <<>>, 0)
        ELSE
    LET ef == IF is_man
              THEN compute_real_ef_man(pollutants, lf.num, engine, year, rpm, valve_type)
              ELSE compute_real_ef_non_man(pollutants, lf.num, engine, year, rpm, valve_type)
    IN  IF ef.kind = "raise" THEN Frame(ef, lf.num, Returned(A), <<>>, 0)
        ELSE
    LET E == EmissionLoop(pollutants, lf.num, Returned(A), P, ef.val)
    IN  Frame(E, lf.num, Returned(A), ef.val,
              IF E.kind = "raise" THEN 1 ELSE Len(pollutants))

(***************************************************************************)
(* The calls.                                                              *)
(***************************************************************************)
PollutantNames == {"NOx", "CO2", "PM"}
PollutantLists == UNION {[1..k -> PollutantNames] : k \in 0..MaxPolls}
Speeds == {0, 1, 2}
RatedSpeeds == {2}
Powers == {3}
Engines == {"main", "auxiliary", "turbine"}
VesselTypes == {"container", "bulk_carrier"}
ValidStatuses == {"trip", "maneuver", "mooring"}
Statuses == ValidStatuses \cup {"invalid", "ship"}
VoyageStatuses == {"trip", "mooring", "invalid"}
Buoys == {0, 9}
ValveTypes == {"C3", "SV", "XX"}
Years == {-1, 1999, 2000, 2008, 2009, 2015, 2016}
Rpms == {0, 129, 130, 1999, 2000}
ClassArgs == {[tier |-> 0, engine_speed |-> "SSD"], [tier |-> 2, engine_speed |-> "HSD"]}
EngineBuilds == {[year |-> 2008, rpm |-> 100], [year |-> 2016, rpm |-> 2000]}
VoyageEngines == {"main", "auxiliary"}
VoyageBuilds == EngineBuilds
LoadFactors ==
    {Rat(0, 1), Rat(1, 100), Rat(3, 50), Rat(1, 8), Rat(3, 20), Rat(1, 5),
     Rat(21, 100), Rat(31, 100), Rat(1, 1), Rat(8, 1)}

Idle == [idle |-> TRUE]

Init ==
    /\ \E e \in Environments : missing = e.missing /\ layout = e.layout
    /\ call = Idle
    /\ ret = Idle
    /\ locals = Idle

Returns(c, r) ==
    /\ call' = c
    /\ ret' = r
    /\ locals' = Idle
    /\ UNCHANGED <<missing, layout>>

Call_compute_lf ==
    /\ call = Idle
    /\ \E v_actual \in Speeds, v_max \in Speeds, engine \in Engines,
       type \in VesselTypes, status \in Statuses :
        Returns([fn |-> "compute_lf", v_actual |-> v_actual, v_max |-> v_max,
                 engine |-> engine, type |-> type, status |-> status],
                compute_lf(v_actual, v_max, engine, type, status))

Call_compute_ef_base ==
    /\ call = Idle
    /\ \E pollutants \in PollutantLists, engine \in Engines,
       a \in ClassArgs, year \in Years, rpm \in Rpms :
        /\ call' = [fn |-> "compute_ef_base", pollutants |-> pollutants,
                    engine |-> engine, engine_speed |-> a.engine_speed,
                    year |-> year, tier |-> a.tier, rpm |-> rpm]
        /\ ret' = compute_ef_base(pollutants, engine, a.engine_speed, year, a.tier, rpm)
        /\ locals' = Classify(a.engine_speed, year, a.tier, rpm)
        /\ UNCHANGED <<missing, layout>>

Call_compute_lla ==
    /\ call = Idle
    /\ \E pollutants \in PollutantLists, lf \in LoadFactors :
        Returns([fn |-> "compute_lla", pollutants |-> pollutants, lf |-> lf],
                compute_lla(pollutants, lf))

Call_compute_efa_non_man ==
    /\ call = Idle
    /\ \E pollutants \in PollutantLists, valve_type \in ValveTypes :
        Returns([fn |-> "compute_efa_non_man", pollutants |-> pollutants,
                 valve_type |-> valve_type],
                compute_efa_non_man(pollutants, valve_type))

Call_compute_real_ef_non_man ==
    /\ call = Idle
    /\ \E pollutants \in PollutantLists, lf \in LoadFactors, engine \in Engines,
       b \in EngineBuilds, valve_type \in ValveTypes :
        Returns([fn |-> "compute_real_ef_non_man", pollutants |-> pollutants,
                 lf |-> lf, engine |-> engine, year |-> b.year, rpm |-> b.rpm,
                 valve_type |-> valve_type],
                compute_real_ef_non_man(pollutants, lf, engine, b.year, b.rpm,
                                        valve_type))

Call_compute_laf_man ==
    /\ call = Idle
    /\ \E pollutants \in PollutantLists, lf \in LoadFactors, valve_type \in ValveTypes :
        Returns([fn |-> "compute_laf_man", pollutants |-> pollutants, lf |-> lf,
                 valve_type |-> valve_type],
                compute_laf_man(pollutants, lf, valve_type))

Call_compute_real_ef_man ==
    /\ call = Idle
    /\ \E pollutants \in PollutantLists, lf \in LoadFactors, engine \in Engines,
       b \in EngineBuilds, valve_type \in ValveTypes :
        Returns([fn |-> "compute_real_ef_man", pollutants |-> pollutants,
                 lf |-> lf, engine |-> engine, year |-> b.year, rpm |-> b.rpm,
                 valve_type |-> valve_type],
                compute_real_ef_man(pollutants, lf, engine, b.year, b.rpm,
                                    valve_type))

Call_compute_A ==
    /\ call = Idle
    /\ \E v_actual \in Speeds, buoy \in Buoys, status \in Statuses :
        Returns([fn |-> "compute_A", v_actual |-> v_actual, buoy |-> buoy,
                 status |-> status],
                compute_A(v_actual, buoy, status))

Call_compute_E ==
    /\ call = Idle
    /\ \E pollutants \in PollutantLists, v_actual \in Speeds, v_max \in RatedSpeeds,
       P \in Powers, engine \in VoyageEngines, type \in VesselTypes,
       status \in VoyageStatuses, buoy \in Buoys, is_man \in BOOLEAN,
       valve_type \in ValveTypes, b \in VoyageBuilds :
        \E f \in {compute_E(pollutants, v_actual, v_max, P, engine, type, status,
                            buoy, is_man, valve_type, b.rpm, b.year)} :
            /\ call' = [fn |-> "compute_E", pollutants |-> pollutants,
                        v_actual |-> v_actual, v_max |-> v_max, P |-> P,
                        engine |-> engine, type |-> type, status |-> status,
                        buoy |-> buoy, is_man |-> is_man,
                        valve_type |-> valve_type, rpm |-> b.rpm, year |-> b.year]
            /\ ret' = f.ret
            /\ locals' = [lf |-> f.lf, A |-> f.A, ef |-> f.ef,
                          multiplied |-> f.multiplied]
            /\ UNCHANGED <<missing, layout>>

\* The caller has taken the outcome; nothing of a call outlives it.
Return ==
    /\ call # Idle
    /\ call' = Idle
    /\ ret' = Idle
    /\ locals' = Idle
    /\ UNCHANGED <<missing, layout>>

Next ==
    \/ Call_compute_lf
    \/ Call_compute_ef_base
    \/ Call_compute_lla
    \/ Call_compute_efa_non_man
    \/ Call_compute_real_ef_non_man
    \/ Call_compute_laf_man
    \/ Call_compute_real_ef_man
    \/ Call_compute_A
    \/ Call_compute_E
    \/ Return

Spec == Init /\ [][Next]_vars

(***************************************************************************)
(* Vocabulary of the properties.                                           *)
(***************************************************************************)
Called(fn) == call # Idle /\ call.fn = fn
Requested(p) == \E i \in 1..Len(call.pollutants) : call.pollutants[i] = p
Range(s) == {s[i] : i \in 1..Len(s)}
FirstIndex(s, x) == CHOOSE i \in 1..Len(s) : s[i] = x /\ \A j \in 1..(i - 1) : s[j] # x
\* The keys of d are the members of s, each once, in the order of first
\* appearance in s.
KeysFollow(d, s) ==
    /\ Range(Keys(d)) = Range(s)
    /\ \A i, j \in 1..Len(d) :
          i < j => FirstIndex(s, d[i][1]) < FirstIndex(s, d[j][1])

\* load_factor > 0.2 and load_factor <= 0.2, on the fraction itself.
AboveFifth(lf) == 5 * lf.n > lf.d
\* The base factors of an engine role for the call's year and rpm.
BaseFor(engine) ==
    compute_ef_base(call.pollutants, engine, "SSD", call.year, 0, call.rpm)

InTier(t, year) ==
    \/ t = 0 /\ year < 2000
    \/ t = 1 /\ year >= 2000 /\ year <= 2008
    \/ t = 2 /\ year >= 2009 /\ year <= 2015
    \/ t = 3 /\ year >= 2016
InSpeedClass(c, rpm) ==
    \/ c = "SSD" /\ rpm < 130
    \/ c = "MSD" /\ rpm >= 130 /\ rpm < 2000
    \/ c = "HSD" /\ rpm >= 2000
MainColumn(row, c) ==
    IF c = "SSD" THEN row.mainSSD ELSE IF c = "MSD" THEN row.mainMSD ELSE row.mainHSD

C6_ClassifierTotal ==
    Called("compute_ef_base") =>
        /\ Cardinality({t \in 0..3 : InTier(t, call.year)}) = 1
        /\ Cardinality({c \in {"SSD", "MSD", "HSD"} : InSpeedClass(c, call.rpm)}) = 1
        /\ InTier(locals.tier, call.year)
        /\ InSpeedClass(locals.engine_speed, call.rpm)
        /\ (ret.kind = "ok" /\ call.engine = "main") =>
              \A p \in PollutantNames, k \in 1..Len(EF_base_csv) :
                 ( /\ Requested(p)
                   /\ EF_base_csv[k].exhaust = p
                   /\ InTier(EF_base_csv[k].Tier, call.year) )
                 => \E c \in {"SSD", "MSD", "HSD"} :
                       /\ InSpeedClass(c, call.rpm)
                       /\ DictAt(ret.val, p) = MainColumn(EF_base_csv[k], c)

\* Both boundaries at once, with arguments that name another tier and class.
C6_Witness ==
    /\ Called("compute_ef_base")
    /\ call.year = 2009 /\ call.rpm = 130
    /\ call.tier = 0 /\ call.engine_speed = "SSD" /\ call.engine = "main"
    /\ locals.tier = 2 /\ locals.engine_speed = "MSD"
    /\ ret.kind = "ok" /\ HasKey(ret.val, "NOx") /\ DictAt(ret.val, "NOx") = 32

(***************************************************************************)
(* C8: a requested pollutant absent from a correction table (the LLA       *)
(* columns, the EFA rows, the LAF columns of either valve variant) gets    *)
(* 1.0 and no error is raised; every other requested pollutant gets the    *)
(* value it gets when the absent ones are not requested; the mapping       *)
(* returned has an entry for every requested pollutant.                    *)
(***************************************************************************)
InLLA(p) == p \in Columns(tables.LLA_non_man)
InEFA(p) == \E k \in 1..Len(tables.EFA_non_man) : tables.EFA_non_man[k].Pollutant = p
InLAF(p) == p \in Columns(LafTable(call.valve_type))

\* ret against alone, the outcome of the same call without the absent
\* pollutants.
AbsentGetOne(present, alone) ==
    /\ ret.kind = "ok"
    /\ alone.kind = "ok"
    /\ \A p \in PollutantNames : Requested(p) =>
          /\ HasKey(ret.val, p)
          /\ IF p \in present
             THEN DictAt(ret.val, p) = DictAt(alone.val, p)
             ELSE DictAt(ret.val, p) = 1

C8_AbsentPollutantNeutral ==
    /\ Called("compute_lla") =>
          AbsentGetOne({p \in PollutantNames : InLLA(p)},
              compute_lla(SelectSeq(call.pollutants, InLLA), call.lf))
    /\ (Called("compute_efa_non_man") /\ call.valve_type \in {"SV", "C3"}
          /\ FileExists("data/EFA_non_man.csv")) =>
          AbsentGetOne({p \in PollutantNames : InEFA(p)},
              compute_efa_non_man(SelectSeq(call.pollutants, InEFA), call.valve_type))
    /\ (Called("compute_laf_man") /\ call.valve_type \in {"SV", "C3"}
          /\ FileExists(IF call.valve_type = "C3" THEN "data/LAF_MAN_C3.csv"
                        ELSE "data/LAF_MAN_SV.csv")) =>
          AbsentGetOne({p \in PollutantNames : InLAF(p)},
              compute_laf_man(SelectSeq(call.pollutants, InLAF), call.lf,
                              call.valve_type))

\* CO2 has no EFA row and is asked for before NOx, which has one.
C8_Witness ==
    /\ Called("compute_efa_non_man")
    /\ call.pollutants = <<"CO2", "NOx">> /\ call.valve_type = "SV"
    /\ ret = Ok(<< <<"CO2", 1>>, <<"NOx", 2>> >>)

(***************************************************************************)
(* C9: for a pollutant with a column in the low-load-adjustment table,     *)
(* compute_lla returns 1.0 when load_factor*100 is strictly above the      *)
(* largest tabulated load, and otherwise the value of the row whose load   *)
(* is nearest to load_factor*100 in absolute difference, the first such    *)
(* row in table order when several are equally near.                       *)
(***************************************************************************)
\* Row i is nearest to 100*lf, and no earlier row is as near.
FirstNearest(loads, i, lf) ==
    /\ \A j \in 1..Len(loads) :
          Abs(loads[i] * lf.d - 100 * lf.n) <= Abs(loads[j] * lf.d - 100 * lf.n)
    /\ \A j \in 1..(i - 1) :
          Abs(loads[j] * lf.d - 100 * lf.n) > Abs(loads[i] * lf.d - 100 * lf.n)

C9_NearestRow ==
    (Called("compute_lla") /\ FileExists("data/LLA_non_man.csv")) =>
        LET t == tables.LLA_non_man
            loads == LoadColumn(t)
        IN  \A p \in DOMAIN t.cols : Requested(p) =>
               /\ ret.kind = "ok" /\ HasKey(ret.val, p)
               /\ IF \A j \in 1..Len(loads) : 100 * call.lf.n > loads[j] * call.lf.d
                  THEN DictAt(ret.val, p) = 1
                  ELSE \E i \in 1..Len(loads) :
                          /\ FirstNearest(loads, i, call.lf)
                          /\ DictAt(ret.val, p) = t.cols[p][i]

\* 6% lies as far from the 10% row as from the 2% row; the text layout has
\* the 10% row first, and its NOx value 13 is returned.
C9_Witness ==
    /\ Called("compute_lla") /\ layout = "text" /\ missing = {}
    /\ call.lf = Rat(3, 50) /\ call.pollutants = <<"NOx">>
    /\ LoadColumn(tables.LLA_non_man) = <<10, 2, 20>>
    /\ ret = Ok(<< <<"NOx", 13>> >>)

(***************************************************************************)
(* C2: when the buoy id matches no row of the distance table, compute_E    *)
(* ends in an error for every pollutant list, the empty one included, and  *)
(* both engine families: the final multiply is never begun with the        *)
(* unusable distance factor and no result mapping is returned.             *)
(***************************************************************************)
BuoyMatched(buoy) == \E k \in 1..Len(tables.buoy) : tables.buoy[k].buoy = buoy

C2_UnmatchedBuoyFatal ==
    (Called("compute_E") /\ FileExists("data/buoy.csv") /\ ~BuoyMatched(call.buoy)) =>
        /\ ret.kind = "raise"
        /\ ~(locals.A = None /\ locals.multiplied > 0)

(***************************************************************************)
(* C3: when a table that a compute_E call of valid arguments reads is      *)
(* missing, the call ends in FileNotFoundError and returns no mapping.     *)
(***************************************************************************)
\* The files the call reads when nothing stops it: the load-factor table for
\* an auxiliary engine, the distance and base tables always, the LAF table
\* of the valve for family A, the EFA and LLA tables for family B with a
\* main engine at a load factor of at most 0.2.
FilesRead ==
    {"data/buoy.csv", "data/EF_base.csv"}
    \cup (IF call.engine = "auxiliary" THEN {"data/LF_auxiliary.csv"} ELSE {})
    \cup (IF call.is_man
          THEN {IF call.valve_type = "C3" THEN "data/LAF_MAN_C3.csv"
                ELSE "data/LAF_MAN_SV.csv"}
          ELSE IF call.engine = "main"
                  /\ ~AboveFifth(Rat(call.v_actual * call.v_actual * call.v_actual,
                                     call.v_max * call.v_max * call.v_max))
               THEN {"data/EFA_non_man.csv", "data/LLA_non_man.csv"}
               ELSE {})

ValidVoyage ==
    /\ call.engine \in {"main", "auxiliary"}
    /\ call.status \in ValidStatuses
    /\ call.valve_type \in {"SV", "C3"}
    /\ call.v_max > 0 /\ call.v_actual > 0
    /\ call.buoy = 0

C3_MissingTableFatal ==
    (Called("compute_E") /\ ValidVoyage /\ FilesRead \cap missing # {}) =>
        ret = Raise("FileNotFoundError")

(***************************************************************************)
(* C4: a valve_type other than 'SV' and 'C3' makes compute_E end in an     *)
(* error, with no result mapping, for both engine families and every load  *)
(* factor and engine role.                                                 *)
(***************************************************************************)
C4_InvalidValveFatal ==
    (Called("compute_E") /\ call.valve_type \notin {"SV", "C3"}) =>
        ret.kind = "raise"

(***************************************************************************)
(* C5: with the buoy matched and a valid status, compute_A of a zero       *)
(* v_actual ends in a division error, never in a value such as inf or nan, *)
(* and compute_E of a zero v_actual returns no result mapping.             *)
(***************************************************************************)
C5_ZeroSpeedFatal ==
    /\ (Called("compute_A") /\ FileExists("data/buoy.csv") /\ BuoyMatched(call.buoy)
          /\ call.status \in ValidStatuses /\ call.v_actual = 0) =>
          ret = Raise("ZeroDivisionError")
    /\ (Called("compute_E") /\ FileExists("data/buoy.csv") /\ BuoyMatched(call.buoy)
          /\ call.status \in ValidStatuses /\ call.v_actual = 0) =>
          ret.kind = "raise"

(***************************************************************************)
(* C7: compute_lf of an auxiliary engine ends in ValueError for a status   *)
(* other than trip, maneuver, mooring, whether or not the vessel type has  *)
(* a row; for a valid status it returns the tabulated value when the       *)
(* vessel type has a row and 0.5 when it has none.                         *)
(***************************************************************************)
C7_AuxiliaryLoadFactor ==
    (Called("compute_lf") /\ call.engine = "auxiliary"
       /\ FileExists("data/LF_auxiliary.csv")) =>
        IF call.status \notin ValidStatuses
        THEN ret = Raise("ValueError")
        ELSE IF \E k \in 1..Len(LF_auxiliary_csv) : LF_auxiliary_csv[k].ship = call.type
             THEN \E k \in 1..Len(LF_auxiliary_csv) :
                     /\ LF_auxiliary_csv[k].ship = call.type
                     /\ ret = OkNum(LF_auxiliary_csv[k][call.status])
             ELSE ret = OkNum(Rat(1, 2))

(***************************************************************************)
(* C10: when compute_E returns, the result has one entry for each          *)
(* requested pollutant and no other, in the order of the request; each     *)
(* entry is load_factor x distance_factor x power x corrected_factor[p],   *)
(* the corrected factor being base_ef x LAF for family A at every load     *)
(* factor and engine role, and the gated factor for family B; a pollutant  *)
(* with no row in the base table for the derived tier has an entry of 0.   *)
(***************************************************************************)
HasBaseRow(p) ==
    \E k \in 1..Len(EF_base_csv) :
        EF_base_csv[k].exhaust = p /\ InTier(EF_base_csv[k].Tier, call.year)

\* The corrected factor of p, from the functions the call composes.
CorrectedFactor(p) ==
    IF call.is_man
    THEN DictAt(BaseFor(call.engine).val, p)
         * DictAt(compute_laf_man(call.pollutants, locals.lf, call.valve_type).val, p)
    ELSE IF AboveFifth(locals.lf) \/ call.engine = "auxiliary"
         THEN DictAt(BaseFor(call.engine).val, p)
         ELSE DictAt(BaseFor("main").val, p)
              * DictAt(compute_efa_non_man(call.pollutants, call.valve_type).val, p)
              * DictAt(compute_lla(call.pollutants, locals.lf).val, p)

\* A finite zero: neither inf nor nan.
IsZero(x) == x.d # 0 /\ x.n = 0

C10_ResultMapping ==
    (Called("compute_E") /\ ret.kind = "ok") =>
        /\ KeysFollow(ret.E, call.pollutants)
        /\ \A p \in PollutantNames : Requested(p) =>
              /\ locals.A # None
              /\ DictAt(ret.E, p) =
                    Rat(locals.lf.n * locals.A.n * call.P * CorrectedFactor(p),
                        locals.lf.d * locals.A.d)
              /\ ~HasBaseRow(p) => IsZero(DictAt(ret.E, p))

====
